---- MODULE Spec2Model ----
(***************************************************************************)
(* Model of getCampaignData (campaign report assembly) and of overAllData  *)
(* (the nightly save of the report to Firestore) of gads-cron.             *)
(*                                                                         *)
(* Dates "YYYY-MM-DD" are day numbers counted from 1 January of EpochYear; *)
(* an instant (a JavaScript Date, in milliseconds) is a number of ticks,   *)
(* TicksPerDay ticks to the day, tick 0 of a day being midnight UTC.       *)
(* Money is kept in micros as the code keeps it; the two-decimal strings   *)
(* that toFixed(2) renders are numbers of hundredths.  A value that may be *)
(* absent or NaN is a sequence of length 0 (absent/NaN) or 1.              *)
(***************************************************************************)
EXTENDS Integers, Sequences, FiniteSets, TLC

VARIABLES pc, now, ticked, campaignInfoResult, idx, query, issued, fetched,
          campaignMap, returned, failure, error, args,
          collection, collection0, saveIdx, docSnapshot, saved, rejection

(* the state of overAllData outside getCampaignData: the Firestore collection
   google_ads_campaigns now and at the start of the run, the position of the
   save loop, the snapshot last read, the outcome of each record handled and
   what the promise of overAllData rejects with *)
saveVars == <<collection, collection0, saveIdx, docSnapshot, saved, rejection>>

vars == <<pc, now, ticked, campaignInfoResult, idx, query, issued, fetched,
          campaignMap, returned, failure, error, args,
          collection, collection0, saveIdx, docSnapshot, saved, rejection>>

-----------------------------------------------------------------------------
(* Bounds of the model *)

MaxCampaigns == 2
MaxDay == 3
MaxRows == 2
TicksPerDay == 2
EpochYear == 2025

(* Program constants *)

MicrosPerUnit == 1000000
NoEndDateYears == 10
PausedCode == 3

-----------------------------------------------------------------------------
(* Values the ads platform returns *)

Absent == <<>>
Val(n) == <<n>>

NumStatus(n) == [t |-> "num", n |-> n, s |-> ""]
StrStatus(s) == [t |-> "str", n |-> 0, s |-> s]

Dates == 0..MaxDay

(* campaign ids as the platform may return them: a number or a string *)
NumId(n) == [t |-> "num", n |-> n, s |-> ""]
StrId(s) == [t |-> "str", n |-> 0, s |-> s]

(* End dates: absent, or a date of which only the year is read *)
NoEndDate == [present |-> FALSE, year |-> 0]
EndDateIn(y) == [present |-> TRUE, year |-> y]

(* metric rows: the five metric fields of one date segment *)
Metrics(c, cv, cvv, i, k) ==
    [cost_micros |-> c, conversions |-> cv, conversions_value |-> cvv,
     impressions |-> i, clicks |-> k]

IdleMetrics == Metrics(Val(0), Val(0), Val(0), Val(0), Val(0))
BusyMetrics == Metrics(Val(5000000), Val(100), Val(250), Val(200), Val(10))

ShownMetrics == Metrics(Val(0), Val(0), Val(0), Val(200), Val(0))
FreeClickMetrics == Metrics(Val(0), Val(0), Val(0), Val(200), Val(10))
PartialMetrics == Metrics(Val(4000), Absent, Absent, Absent, Val(3))

(* inputs of the batch runs: several campaigns, enabled or paused *)
RowKinds == {BusyMetrics}

Statuses == {NumStatus(2), NumStatus(3)}

EndDates == {NoEndDate}

(* inputs of the single-campaign runs: every status representation, end
   dates around the no-end-date threshold, every kind of metric row *)
WideRowKinds == {IdleMetrics, BusyMetrics, ShownMetrics, FreeClickMetrics,
                 PartialMetrics}

WideStatuses ==
    {NumStatus(n) : n \in 0..7}
    \cup {StrStatus(s) : s \in {"", "1", "2", "3", "4", "5", "6", "7"}}
    \cup {StrStatus(s) : s \in {"ENABLED", "PAUSED", "REMOVED", "DRAFT", "ENDED",
                                "UNKNOWN", "UNSPECIFIED", "FOO"}}

WideEndDates == {NoEndDate} \cup {EndDateIn(EpochYear + k) : k \in {0, 10, 11, 12}}

WideStartDates == 0..1

(* the dateRange, startDate and endDate arguments of getCampaignData *)
RangeArgs(dateRange, startDate, endDate) ==
    [dateRange |-> dateRange, startDate |-> startDate, endDate |-> endDate]

(* getOverallCampaignData and overAllData: the three arguments left null *)
OmittedArgs == RangeArgs(Absent, Absent, Absent)

(* getCampaignDataPredefined and getCampaignDataCustomRange *)
PredefinedArgs(range) == RangeArgs(Val(range), Absent, Absent)
CustomArgs(startDate, endDate) == RangeArgs(Val("CUSTOM"), Val(startDate), Val(endDate))

AnyArgs ==
    {OmittedArgs, PredefinedArgs("LAST_7_DAYS")}
    \cup {CustomArgs(d, e) : d \in 0..0, e \in 0..1}

(* a catalog row without an id *)
NoId == [t |-> "none", n |-> 0, s |-> ""]

(* inputs of the runs of overAllData: campaigns started today, whose ids may
   repeat, be empty or be missing *)
SyncIds == {NumId(1), NumId(2), StrId(""), NoId}

SyncStartDates == 1..1

SyncStatuses == {NumStatus(2)}

-----------------------------------------------------------------------------
(* Clock *)

Today(t) == t \div TicksPerDay

DateObj(d) == d * TicksPerDay

CurrentYear(t) == EpochYear + (Today(t) \div 365)

(* the instants of day 1, on which the report is started *)
StartInstants == DateObj(1)..(DateObj(2) - 1)

Ceil(a, b) == -((-a) \div b)

-----------------------------------------------------------------------------
(* Parsing *)

Digits == <<"0", "1", "2", "3", "4", "5", "6", "7", "8", "9">>

StrToNum(s) ==
    IF \E i \in DOMAIN Digits : Digits[i] = s
    THEN Val((CHOOSE i \in DOMAIN Digits : Digits[i] = s) - 1)
    ELSE Absent

ParseInt(status) == IF status.t = "num" THEN Val(status.n) ELSE StrToNum(status.s)

IsNaN(status) ==
    IF status.t = "num" THEN FALSE
    ELSE IF status.s = "" THEN FALSE
    ELSE StrToNum(status.s) = Absent

(* the parse without its default: NaN, written here as -1, enters the sum *)
ParseWithoutDefault(v) == IF v = Absent THEN -1 ELSE v[1]

ParseOr0(v) == IF v = Absent THEN 0 ELSE v[1]

-----------------------------------------------------------------------------
(* Catalog rows and per-campaign info *)

CampaignInfo(campaignRow) ==
    [id |-> campaignRow.id,
     name |-> campaignRow.name,
     startDate |-> campaignRow.start_date,
     endDate |-> campaignRow.end_date,
     status |-> campaignRow.status,
     isPaused |-> ParseInt(campaignRow.status) = Val(PausedCode)]

MetricsQuery(info, t) ==
    [campaignId |-> info.id, dateFrom |-> info.startDate, dateTo |-> Today(t)]

-----------------------------------------------------------------------------
(* Aggregation of the daily rows *)

ZeroAcc(startDate) ==
    [totalCost |-> 0, totalConversions |-> 0, totalConversionsValue |-> 0,
     totalImpressions |-> 0, totalClicks |-> 0, lastActiveDate |-> startDate]

ProcessRow(acc, row) ==
    LET cost == ParseOr0(row.metrics.cost_micros)
        conversions == ParseOr0(row.metrics.conversions)
        conversionsValue == ParseOr0(row.metrics.conversions_value)
        impressions == ParseOr0(row.metrics.impressions)
        clicks == ParseOr0(row.metrics.clicks)
    IN  [totalCost |-> acc.totalCost + cost,
         totalConversions |-> acc.totalConversions + conversions,
         totalConversionsValue |-> acc.totalConversionsValue + conversionsValue,
         totalImpressions |-> acc.totalImpressions + impressions,
         totalClicks |-> acc.totalClicks + clicks,
         lastActiveDate |->
             IF cost > 0 \/ impressions > 0 \/ clicks > 0
             THEN row.date ELSE acc.lastActiveDate]

RECURSIVE ForEachRow(_, _)
ForEachRow(acc, rows) ==
    IF rows = <<>> THEN acc
    ELSE ForEachRow(ProcessRow(acc, Head(rows)), Tail(rows))

Aggregate(startDate, rows) == ForEachRow(ZeroAcc(startDate), rows)

ActiveDays(info, lastActiveDate, t) ==
    LET startDateObj == DateObj(info.startDate)
        endDateObj == IF info.isPaused THEN DateObj(lastActiveDate) ELSE t
    IN  Ceil(endDateObj - startDateObj, TicksPerDay) + 1

AggregatedCampaign(info, rows, t) ==
    LET acc == Aggregate(info.startDate, rows)
    IN  [id |-> info.id, name |-> info.name, startDate |-> info.startDate,
         endDate |-> info.endDate, status |-> info.status,
         isPaused |-> info.isPaused,
         lastActiveDate |-> acc.lastActiveDate,
         activeDays |-> ActiveDays(info, acc.lastActiveDate, t),
         totalCost |-> acc.totalCost,
         totalConversions |-> acc.totalConversions,
         totalConversionsValue |-> acc.totalConversionsValue,
         totalImpressions |-> acc.totalImpressions,
         totalClicks |-> acc.totalClicks]

(* the fallback left with the initial activeDays of the try block *)
FallbackCampaignDaysUnset(info) ==
    [id |-> info.id, name |-> info.name, startDate |-> info.startDate,
     endDate |-> info.endDate, status |-> info.status,
     isPaused |-> info.isPaused,
     lastActiveDate |-> info.startDate,
     activeDays |-> 0,
     totalCost |-> 0,
     totalConversions |-> 0,
     totalConversionsValue |-> 0,
     totalImpressions |-> 0,
     totalClicks |-> 0]

FallbackCampaign(info) ==
    [id |-> info.id, name |-> info.name, startDate |-> info.startDate,
     endDate |-> info.endDate, status |-> info.status,
     isPaused |-> info.isPaused,
     lastActiveDate |-> info.startDate,
     activeDays |-> 1,
     totalCost |-> 0,
     totalConversions |-> 0,
     totalConversionsValue |-> 0,
     totalImpressions |-> 0,
     totalClicks |-> 0]

(* Map.prototype.set on a Map kept as its entries in insertion order *)
MapSet(m, k, v) ==
    IF \E i \in DOMAIN m : m[i].key = k
    THEN [i \in DOMAIN m |-> IF m[i].key = k THEN [key |-> k, value |-> v] ELSE m[i]]
    ELSE Append(m, [key |-> k, value |-> v])

MapValues(m) == [i \in DOMAIN m |-> m[i].value]

-----------------------------------------------------------------------------
(* Formatting *)

(* a/b rounded to the nearest integer, halves up (a >= 0, b > 0) *)
RoundDiv(a, b) == (2 * a + b) \div (2 * b)

(* Number.prototype.toFixed(2) of num/den, in hundredths (num >= 0, den > 0);
   the factor 100 is cancelled against den where it divides it, which keeps
   the intermediate values within 32 bits *)
ToFixed2(num, den) ==
    IF den % 100 = 0 THEN RoundDiv(num, den \div 100) ELSE RoundDiv(100 * num, den)

EndLabel(kind, on, literal) == [kind |-> kind, on |-> on, literal |-> literal]

(* the threshold year itself taken for the no-end-date sentinel *)
FormatEndDateInclusive(endDate, isPaused, lastActiveDate, t) ==
    IF isPaused THEN EndLabel("Paused on", Val(lastActiveDate), Absent)
    ELSE IF ~endDate.present THEN EndLabel("No end date", Absent, Absent)
    ELSE IF endDate.year >= CurrentYear(t) + NoEndDateYears
         THEN EndLabel("No end date", Absent, Absent)
         ELSE EndLabel("literal", Absent, Val(endDate))

FormatEndDate(endDate, isPaused, lastActiveDate, t) ==
    IF isPaused THEN EndLabel("Paused on", Val(lastActiveDate), Absent)
    ELSE IF ~endDate.present THEN EndLabel("No end date", Absent, Absent)
    ELSE LET endYear == endDate.year
             currentYear == CurrentYear(t)
         IN  IF endYear > currentYear + NoEndDateYears
             THEN EndLabel("No end date", Absent, Absent)
             ELSE EndLabel("literal", Absent, Val(endDate))

(* text, then " (<raw>)" when unknownRaw is present, then " (Ran for <n> days)" *)
StatusLabel(text, unknownRaw, ranFor) ==
    [text |-> text, unknownRaw |-> unknownRaw, ranFor |-> ranFor]

NumericStatusText(status) ==
    LET numericStatus == ParseInt(status)
    IN  CASE numericStatus = Val(2) -> StatusLabel("Active", Absent, Absent)
          [] numericStatus = Val(3) -> StatusLabel("Paused", Absent, Absent)
          [] numericStatus = Val(4) -> StatusLabel("Removed", Absent, Absent)
          [] numericStatus = Val(5) -> StatusLabel("Draft", Absent, Absent)
          [] numericStatus = Val(6) -> StatusLabel("Ended", Absent, Absent)
          [] OTHER -> StatusLabel("Unknown", Val(status), Absent)

StringStatusText(status) ==
    CASE status.s = "ENABLED" -> StatusLabel("Active", Absent, Absent)
      [] status.s = "PAUSED" -> StatusLabel("Paused", Absent, Absent)
      [] status.s = "REMOVED" -> StatusLabel("Removed", Absent, Absent)
      [] status.s = "DRAFT" -> StatusLabel("Draft", Absent, Absent)
      [] status.s = "ENDED" -> StatusLabel("Ended", Absent, Absent)
      [] status.s = "UNKNOWN" -> StatusLabel("Unknown", Absent, Absent)
      [] OTHER -> StatusLabel(status.s, Absent, Absent)

FormatStatus(status, isPaused, activeDays) ==
    LET statusText == IF status.t = "num" \/ ~IsNaN(status)
                      THEN NumericStatusText(status)
                      ELSE StringStatusText(status)
    IN  IF isPaused
        THEN [statusText EXCEPT !.ranFor = Val(activeDays)]
        ELSE statusText

(* the ratio guarded by the clicks instead of the impressions: a division by
   zero impressions renders "Infinity%", written here as -1 hundredths *)
CtrGuardedByClicks(totalClicks, totalImpressions) ==
    IF totalClicks > 0
    THEN [fixed |-> TRUE,
          hundredths |-> IF totalImpressions > 0
                         THEN ToFixed2(totalClicks * 100, totalImpressions) ELSE -1]
    ELSE [fixed |-> FALSE, hundredths |-> 0]

(* '0%' when there are no impressions, else toFixed(2) + '%' *)
Ctr(totalClicks, totalImpressions) ==
    IF totalImpressions > 0
    THEN [fixed |-> TRUE, hundredths |-> ToFixed2(totalClicks * 100, totalImpressions)]
    ELSE [fixed |-> FALSE, hundredths |-> 0]

AverageCpc(totalCost, totalClicks) ==
    IF totalClicks > 0 THEN ToFixed2(totalCost, MicrosPerUnit * totalClicks) ELSE 0

DailyAvgCost(totalCost, activeDays) ==
    IF activeDays > 0 THEN ToFixed2(totalCost, MicrosPerUnit * activeDays) ELSE 0

FormatCampaign(campaign, t) ==
    [campaignId |-> campaign.id,
     campaignName |-> campaign.name,
     startDate |-> campaign.startDate,
     endDate |-> FormatEndDate(campaign.endDate, campaign.isPaused,
                               campaign.lastActiveDate, t),
     status |-> FormatStatus(campaign.status, campaign.isPaused, campaign.activeDays),
     activeDuration |-> campaign.activeDays,
     totalCost |-> ToFixed2(campaign.totalCost, MicrosPerUnit),
     dailyAvgCost |-> DailyAvgCost(campaign.totalCost, campaign.activeDays),
     totalConversions |-> campaign.totalConversions,
     totalConversionsValue |-> campaign.totalConversionsValue,
     totalImpressions |-> campaign.totalImpressions,
     totalClicks |-> campaign.totalClicks,
     ctr |-> Ctr(campaign.totalClicks, campaign.totalImpressions),
     averageCpc |-> AverageCpc(campaign.totalCost, campaign.totalClicks),
     costPerDay |-> DailyAvgCost(campaign.totalCost, campaign.activeDays),
     isPaused |-> campaign.isPaused,
     lastActiveDate |-> campaign.lastActiveDate]

FormattedCampaigns(map, t) ==
    LET campaigns == MapValues(map)
    IN  [i \in DOMAIN campaigns |-> FormatCampaign(campaigns[i], t)]

(* a new error thrown in place of the one caught *)
RethrowGeneric(e) == "ERROR"

(* catch (error) { console.error(...); throw error; } *)
Rethrow(e) == e

-----------------------------------------------------------------------------
(* What the platform may answer *)

CampaignRows(startDates, endDates, statuses) ==
    [start_date : startDates, end_date : endDates, status : statuses]

CatalogsOf(rows, maxLen) ==
    UNION { { [i \in 1..n |-> [id |-> i, name |-> i,
                               start_date |-> f[i].start_date,
                               end_date |-> f[i].end_date,
                               status |-> f[i].status]] : f \in [1..n -> rows] }
            : n \in 0..maxLen }

CatalogsWithIds(rows, ids, maxLen) ==
    UNION { { [i \in 1..n |-> [id |-> g[i], name |-> i,
                               start_date |-> f[i].start_date,
                               end_date |-> f[i].end_date,
                               status |-> f[i].status]]
              : f \in [1..n -> rows], g \in [1..n -> ids] }
            : n \in 0..maxLen }

(* rows of distinct dates within the queried window, in ascending date order *)
AscDateSeqs(from, to) ==
    { ds \in UNION { [1..n -> from..to] : n \in 0..MaxRows } :
        \A i, j \in DOMAIN ds : i < j => ds[i] < ds[j] }

RowSeqs(kinds, q) ==
    UNION { { [i \in DOMAIN ds |-> [date |-> ds[i], metrics |-> ms[i]]]
              : ms \in [DOMAIN ds -> kinds] }
            : ds \in AscDateSeqs(q.dateFrom, q.dateTo) }

Causes == {"AUTH", "NETWORK"}

-----------------------------------------------------------------------------
(* The Firestore collection google_ads_campaigns *)

(* campaign.id.toString() *)
IdToString(id) == IF id.t = "num" THEN ToString(id.n) ELSE id.s

(* the document ids a run may write under *)
DocIds == {IdToString(id) : id \in {i \in SyncIds : i.t # "none"}} \ {""}

(* a collection holds under each document id no document (<<>>) or one *)
NoDocuments == [k \in DocIds |-> <<>>]

(* a document left by an earlier run, with a field the records do not have *)
EarlierDocument(k) == [campaignId |-> k, syncedBy |-> "earlier"]

SyncCollections ==
    {NoDocuments} \cup
    {[k \in DocIds |-> IF k = first THEN <<EarlierDocument(k)>> ELSE <<>>] : first \in {"1"}}

(* docRef.set(campaign): the document becomes the record *)
SetDocument(old, campaign) == campaign

(* docRef.set(campaign, { merge: true }): the fields of the record replace
   those of the document, the other fields of the document stay *)
SetMerge(old, campaign) ==
    [f \in DOMAIN old \cup DOMAIN campaign |->
        IF f \in DOMAIN campaign THEN campaign[f] ELSE old[f]]

-----------------------------------------------------------------------------
(* getCampaignData *)

InitWith(collections) ==
    /\ pc = "idle"
    /\ now \in StartInstants
    /\ ticked = FALSE
    /\ campaignInfoResult = <<>>
    /\ idx = 0
    /\ query = <<>>
    /\ issued = <<>>
    /\ fetched = <<>>
    /\ campaignMap = <<>>
    /\ returned = <<>>
    /\ failure = <<>>
    /\ error = <<>>
    /\ args = OmittedArgs
    /\ collection \in collections
    /\ collection0 = collection
    /\ saveIdx = 0
    /\ docSnapshot = <<>>
    /\ saved = <<>>
    /\ rejection = <<>>

Init == InitWith({NoDocuments})

(* the clock advances while the function waits for the platform; a tick is a
   large part of a day, and a run sees at most one *)
Tick ==
    /\ pc \in {"awaitCatalog", "awaitMetrics"}
    /\ ~ticked
    /\ now' = now + 1
    /\ ticked' = TRUE
    /\ UNCHANGED <<pc, campaignInfoResult, idx, query, issued, fetched,
                   campaignMap, returned, failure, error, args,
                   saveVars>>

(* the call, up to the await of the catalog query *)
CallWith(argSets) ==
    /\ pc = "idle"
    /\ pc' = "awaitCatalog"
    /\ args' \in argSets
    /\ UNCHANGED <<now, ticked, campaignInfoResult, idx, query, issued, fetched,
                   campaignMap, returned, failure, error,
                   saveVars>>

Call == CallWith({OmittedArgs})

(* the loop issuing each metrics query a second time *)
ProceedQueryingTwice(c, k, map) ==
    IF k < Len(c)
    THEN LET q == MetricsQuery(CampaignInfo(c[k + 1]), now)
         IN  /\ idx' = k + 1
             /\ query' = <<q>>
             /\ issued' = Append(Append(issued, q), q)
             /\ pc' = "awaitMetrics"
             /\ returned' = returned
    ELSE /\ idx' = k
         /\ query' = <<>>
         /\ issued' = issued
         /\ pc' = "returned"
         /\ returned' = FormattedCampaigns(map, now)

(* the loop after campaign k of catalog c: the next metrics query is issued,
   or the loop is over and the records are formatted and returned *)
Proceed(c, k, map) ==
    IF k < Len(c)
    THEN LET q == MetricsQuery(CampaignInfo(c[k + 1]), now)
         IN  /\ idx' = k + 1
             /\ query' = <<q>>
             /\ issued' = Append(issued, q)
             /\ pc' = "awaitMetrics"
             /\ returned' = returned
    ELSE /\ idx' = k
         /\ query' = <<>>
         /\ issued' = issued
         /\ pc' = "returned"
         /\ returned' = FormattedCampaigns(map, now)

CatalogOkFrom(catalogs) ==
    /\ pc = "awaitCatalog"
    /\ \E c \in catalogs :
         /\ campaignInfoResult' = c
         /\ Proceed(c, 0, campaignMap)
    /\ UNCHANGED <<now, ticked, fetched, campaignMap, failure, error, args,
                   saveVars>>

CatalogFail ==
    /\ pc = "awaitCatalog"
    /\ \E cause \in Causes :
         /\ failure' = <<cause>>
         /\ error' = <<Rethrow(cause)>>
    /\ pc' = "thrown"
    /\ UNCHANGED <<now, ticked, campaignInfoResult, idx, query, issued, fetched,
                   campaignMap, returned, args,
                   saveVars>>

MetricsOkFrom(kinds) ==
    /\ pc = "awaitMetrics"
    /\ \E rows \in RowSeqs(kinds, query[1]) :
         LET info == CampaignInfo(campaignInfoResult[idx])
             map == MapSet(campaignMap, info.id, AggregatedCampaign(info, rows, now))
         IN  /\ fetched' = Append(fetched, [ok |-> TRUE, rows |-> rows])
             /\ campaignMap' = map
             /\ Proceed(campaignInfoResult, idx, map)
    /\ UNCHANGED <<now, ticked, campaignInfoResult, failure, error, args,
                   saveVars>>

MetricsFail ==
    /\ pc = "awaitMetrics"
    /\ LET info == CampaignInfo(campaignInfoResult[idx])
           map == MapSet(campaignMap, info.id, FallbackCampaign(info))
       IN  /\ fetched' = Append(fetched, [ok |-> FALSE, rows |-> <<>>])
           /\ campaignMap' = map
           /\ Proceed(campaignInfoResult, idx, map)
    /\ UNCHANGED <<now, ticked, campaignInfoResult, failure, error, args,
                   saveVars>>

Catalogs == CatalogsOf(CampaignRows(Dates, EndDates, Statuses), MaxCampaigns)

CatalogOk == CatalogOkFrom(Catalogs)

MetricsOk == MetricsOkFrom(RowKinds)

Next == Tick \/ Call \/ CatalogOk \/ CatalogFail \/ MetricsOk \/ MetricsFail

Spec == Init /\ [][Next]_vars

WideCatalogs == CatalogsOf(CampaignRows(WideStartDates, WideEndDates, WideStatuses), 1)

WideCatalogOk == CatalogOkFrom(WideCatalogs)

WideMetricsOk == MetricsOkFrom(WideRowKinds)

NextFormat ==
    Tick \/ Call \/ WideCatalogOk \/ CatalogFail \/ WideMetricsOk \/ MetricsFail

(* the same function on single-campaign catalogs with the wide inputs *)
SpecFormat == Init /\ [][NextFormat]_vars

RangeCall == CallWith(AnyArgs)

NextRange ==
    Tick \/ RangeCall \/ CatalogOk \/ CatalogFail \/ MetricsOk \/ MetricsFail

(* getCampaignData called with or without a date range *)
SpecRange == Init /\ [][NextRange]_vars

SyncCatalogs ==
    CatalogsWithIds(CampaignRows(SyncStartDates, EndDates, SyncStatuses), SyncIds,
                    MaxCampaigns)

SyncCatalogOk == CatalogOkFrom(SyncCatalogs)

(* the records as overAllData.js formats them: campaignId is
   campaign.id.toString() *)
Campaigns == [i \in DOMAIN returned |->
                 [returned[i] EXCEPT !.campaignId = IdToString(@)]]

(* !campaign.campaignId || typeof campaign.campaignId !== 'string' ||
   campaign.campaignId.trim() === '': of the strings toString() yields, the
   empty one *)
InvalidId(campaign) == campaign.campaignId = ""

(* the records from position k on that the loop skips before the next one it
   saves *)
RECURSIVE Skipped(_, _)
Skipped(campaigns, k) ==
    IF k <= Len(campaigns) /\ InvalidId(campaigns[k])
    THEN <<[id |-> "", outcome |-> "skipped"]>> \o Skipped(campaigns, k + 1)
    ELSE <<>>

(* the loop of saveGoogleAdsDataToFirestore after the records log accounts
   for: invalid records are skipped, the document of the next valid one is
   read, and past the last record overAllData resolves *)
SaveProceed(log) ==
    LET skipped == Skipped(Campaigns, Len(log) + 1)
        k == Len(log) + Len(skipped) + 1
    IN  /\ saved' = log \o skipped
        /\ docSnapshot' = <<>>
        /\ IF k <= Len(Campaigns)
           THEN /\ saveIdx' = k
                /\ pc' = "awaitGet"
           ELSE /\ saveIdx' = saveIdx
                /\ pc' = "done"

getVars == <<now, ticked, campaignInfoResult, idx, query, issued, fetched,
             campaignMap, returned, failure, error, args>>

(* getCampaignData resolved: every id had a toString; overAllData passes the
   records to saveGoogleAdsDataToFirestore *)
SaveCampaigns ==
    /\ pc = "returned"
    /\ \A i \in DOMAIN returned : returned[i].campaignId.t # "none"
    /\ SaveProceed(saved)
    /\ UNCHANGED <<getVars, collection, collection0, rejection>>

(* a campaign without an id: campaign.id.toString() throws while the records
   are formatted, getCampaignData catches and rethrows, nothing is returned *)
IdThrows ==
    /\ pc = "returned"
    /\ \E i \in DOMAIN returned : returned[i].campaignId.t = "none"
    /\ returned' = <<>>
    /\ error' = <<Rethrow("TypeError")>>
    /\ pc' = "thrown"
    /\ UNCHANGED <<now, ticked, campaignInfoResult, idx, query, issued, fetched,
                   campaignMap, failure, args, saveVars>>

(* catch (error) { console.error('Error in example:', error.message); } *)
OverAllDataCatch(e) == <<>>

(* getCampaignData rejected: overAllData logs the error and resolves *)
Catch ==
    /\ pc = "thrown"
    /\ rejection' = OverAllDataCatch(error[1])
    /\ pc' = "done"
    /\ UNCHANGED <<getVars, collection, collection0, saveIdx, docSnapshot, saved>>

(* docRef.get() resolves with the snapshot of the document *)
GetOk ==
    /\ pc = "awaitGet"
    /\ docSnapshot' = <<[exists |-> collection[Campaigns[saveIdx].campaignId] # <<>>]>>
    /\ pc' = "awaitSet"
    /\ UNCHANGED <<getVars, collection, collection0, saveIdx, saved, rejection>>

(* docRef.get() rejects: the error is logged and the loop goes on *)
GetFail ==
    /\ pc = "awaitGet"
    /\ SaveProceed(Append(saved, [id |-> Campaigns[saveIdx].campaignId,
                                  outcome |-> "failed"]))
    /\ UNCHANGED <<getVars, collection, collection0, rejection>>

(* a write that replaces the document whether or not one exists *)
WriteReplacing(exists, old, campaign) == SetDocument(old, campaign)

(* if (docSnapshot.exists) set(campaign, { merge: true }) else set(campaign) *)
Write(exists, old, campaign) ==
    IF exists THEN SetMerge(old, campaign) ELSE SetDocument(old, campaign)

(* docRef.set(...) resolves *)
SetOk ==
    /\ pc = "awaitSet"
    /\ LET campaign == Campaigns[saveIdx]
           id == campaign.campaignId
           exists == docSnapshot[1].exists
           old == IF exists THEN collection[id][1] ELSE <<>>
       IN  /\ collection' = [collection EXCEPT ![id] = <<Write(exists, old, campaign)>>]
           /\ SaveProceed(Append(saved, [id |-> id,
                                         outcome |-> IF exists THEN "updated" ELSE "saved"]))
    /\ UNCHANGED <<getVars, collection0, rejection>>

(* docRef.set(...) rejects: the error is logged and the loop goes on *)
SetFail ==
    /\ pc = "awaitSet"
    /\ SaveProceed(Append(saved, [id |-> Campaigns[saveIdx].campaignId,
                                  outcome |-> "failed"]))
    /\ UNCHANGED <<getVars, collection, collection0, rejection>>

InitSync == InitWith(SyncCollections)

NextSync ==
    \/ Tick \/ Call \/ SyncCatalogOk \/ CatalogFail \/ MetricsOk \/ MetricsFail
    \/ SaveCampaigns \/ IdThrows \/ Catch \/ GetOk \/ GetFail \/ SetOk \/ SetFail

(* overAllData: getCampaignData, then the records saved *)
SpecSync == InitSync /\ [][NextSync]_vars

-----------------------------------------------------------------------------
(* Properties *)

Returned == pc = "returned"

Records == DOMAIN returned

(* the catalog row and the metrics reply behind record i; campaign ids are
   distinct in the catalogs above, so record i is campaign i *)
RowOf(i) == campaignInfoResult[i]

ReplyOf(i) == fetched[i]

RECURSIVE SumOf(_, _)
SumOf(vals, n) == IF n = 0 THEN 0 ELSE vals[n] + SumOf(vals, n - 1)

FieldTotal(rows, field) ==
    SumOf([i \in DOMAIN rows |->
              IF rows[i].metrics[field] = Absent THEN 0 ELSE rows[i].metrics[field][1]],
          Len(rows))

Perms(rows) ==
    { [i \in DOMAIN rows |-> rows[f[i]]] :
        f \in { g \in [DOMAIN rows -> DOMAIN rows] :
                  \A i, j \in DOMAIN rows : g[i] = g[j] => i = j } }

IsActiveRow(row) ==
    \/ ParseOr0(row.metrics.cost_micros) > 0
    \/ ParseOr0(row.metrics.impressions) > 0
    \/ ParseOr0(row.metrics.clicks) > 0

MaxOf(S) == CHOOSE m \in S : \A x \in S : x <= m

(* C1: every returned record has activeDays >= 1, whatever the start date,
   the status and the daily rows. *)
C1_ActiveDaysAtLeastOne ==
    Returned => \A i \in Records : returned[i].activeDuration >= 1

(* C2: every returned record has startDate <= lastActiveDate <= today. *)
C2_LastActiveWithinWindow ==
    Returned =>
        \A i \in Records :
            /\ returned[i].startDate <= returned[i].lastActiveDate
            /\ returned[i].lastActiveDate <= Today(now)

(* C3: aggregating any permutation of a campaign's daily rows gives the same
   five totals and the same lastActiveDate, which is the maximum of startDate
   and the dates of the rows with cost, impressions or clicks above 0. *)
C3_OrderIndependent ==
    Returned =>
        \A i \in Records :
            ReplyOf(i).ok =>
                \A p \in Perms(ReplyOf(i).rows) :
                    LET acc == Aggregate(RowOf(i).start_date, p)
                    IN  /\ acc.totalCost = FieldTotal(p, "cost_micros")
                        /\ acc.totalConversions = FieldTotal(p, "conversions")
                        /\ acc.totalConversionsValue = FieldTotal(p, "conversions_value")
                        /\ acc.totalImpressions = FieldTotal(p, "impressions")
                        /\ acc.totalClicks = FieldTotal(p, "clicks")
                        /\ acc.lastActiveDate =
                               MaxOf({RowOf(i).start_date}
                                     \cup {p[k].date : k \in {j \in DOMAIN p : IsActiveRow(p[j])}})

(* C4: whatever subset of the metrics fetches fails, the function returns
   one record per catalog campaign and raises nothing; a campaign whose fetch
   failed has the five totals 0, lastActiveDate = startDate and activeDays 1,
   and a campaign whose fetch succeeded has the totals of its own rows. *)
C4_FetchFailureIsolated ==
    /\ failure = <<>> => (pc # "thrown" /\ error = <<>>)
    /\ Returned =>
        /\ Len(returned) = Len(campaignInfoResult)
        /\ \A i \in Records :
            LET r == returned[i]
                rows == ReplyOf(i).rows
            IN  /\ r.campaignId = RowOf(i).id
                /\ r.totalCost = ToFixed2(FieldTotal(rows, "cost_micros"), 1000000)
                /\ r.totalConversions = FieldTotal(rows, "conversions")
                /\ r.totalConversionsValue = FieldTotal(rows, "conversions_value")
                /\ r.totalImpressions = FieldTotal(rows, "impressions")
                /\ r.totalClicks = FieldTotal(rows, "clicks")
                /\ ~ReplyOf(i).ok =>
                       /\ rows = <<>>
                       /\ r.lastActiveDate = RowOf(i).start_date
                       /\ r.activeDuration = 1

C4_Witness ==
    /\ Returned
    /\ \E i, j \in Records :
         /\ ~ReplyOf(i).ok
         /\ ReplyOf(j).ok
         /\ returned[j].totalClicks > 0

(* C5: when the catalog fetch fails the report is aborted: no metrics query
   is issued, no record is returned, and the error thrown to the caller is
   the error of the fetch. *)
C5_CatalogFailureAborts ==
    failure # <<>> =>
        /\ pc = "thrown"
        /\ error = failure
        /\ issued = <<>>
        /\ fetched = <<>>
        /\ returned = <<>>

C5_Witness == pc = "thrown" /\ failure # <<>>

(* C6, as stated: ctr is 0 exactly when totalImpressions is 0, and averageCpc
   is 0 exactly when totalClicks is 0. *)
C6_ZeroExactly ==
    Returned =>
        \A i \in Records :
            /\ returned[i].ctr.hundredths = 0 <=> returned[i].totalImpressions = 0
            /\ returned[i].averageCpc = 0 <=> returned[i].totalClicks = 0

(* C6, amended: ctr is 0 whenever totalImpressions is 0, and averageCpc is 0
   whenever totalClicks is 0. *)
C6_ZeroWhenNoDenominator ==
    Returned =>
        \A i \in Records :
            /\ returned[i].totalImpressions = 0 => returned[i].ctr.hundredths = 0
            /\ returned[i].totalClicks = 0 => returned[i].averageCpc = 0

C6_Witness ==
    /\ Returned
    /\ \E i \in Records :
         /\ ReplyOf(i).ok
         /\ returned[i].totalImpressions = 0
         /\ returned[i].totalClicks > 0
         /\ returned[i].ctr.hundredths = 0

(* C7: for a campaign whose metrics fetch succeeded and that has started,
   activeDays is the inclusive number of calendar days from startDate to
   lastActiveDate if it is paused, to today otherwise. *)
C7_InclusiveDays ==
    (Returned /\ ~ticked) =>
        \A i \in Records :
            (ReplyOf(i).ok /\ returned[i].startDate <= Today(now)) =>
                LET effectiveEnd == IF returned[i].isPaused
                                    THEN returned[i].lastActiveDate ELSE Today(now)
                IN  returned[i].activeDuration = effectiveEnd - returned[i].startDate + 1

(* C8: the end-date label is "Paused on <lastActiveDate>" for a paused
   campaign; otherwise "No end date" when there is no end date or its year
   exceeds the current year + 10; otherwise the end date itself. *)
C8_EndDateLabel ==
    Returned =>
        \A i \in Records :
            LET r == returned[i]
                e == RowOf(i).end_date
                thisYear == EpochYear + (Today(now) \div 365)
            IN  r.endDate =
                    IF r.isPaused
                    THEN [kind |-> "Paused on", on |-> <<r.lastActiveDate>>, literal |-> <<>>]
                    ELSE IF ~e.present \/ e.year > thisYear + 10
                    THEN [kind |-> "No end date", on |-> <<>>, literal |-> <<>>]
                    ELSE [kind |-> "literal", on |-> <<>>, literal |-> <<e>>]

C8_Witness ==
    /\ Returned
    /\ \E i \in Records :
         /\ ~returned[i].isPaused
         /\ RowOf(i).end_date.present
         /\ RowOf(i).end_date.year = EpochYear + 10
         /\ returned[i].endDate.kind = "literal"

(* C9: the status label maps the codes 2..6 (number or numeric string) to
   Active, Paused, Removed, Draft, Ended, the canonical names to their
   labels, and every other value to "Unknown (<raw value>)". *)
C9_StatusLabel ==
    Returned =>
        \A i \in Records :
            LET st == RowOf(i).status
                code == IF st.t = "num" THEN <<st.n>> ELSE StrToNum(st.s)
                codeNames == [n \in 2..6 |->
                                 <<"Active", "Paused", "Removed", "Draft", "Ended">>[n - 1]]
                canonical == [ENABLED |-> "Active", PAUSED |-> "Paused",
                              REMOVED |-> "Removed", DRAFT |-> "Draft",
                              ENDED |-> "Ended", UNKNOWN |-> "Unknown"]
                label == returned[i].status
            IN  IF code # <<>> /\ code[1] \in 2..6
                THEN label.text = codeNames[code[1]] /\ label.unknownRaw = <<>>
                ELSE IF st.t = "str" /\ st.s \in DOMAIN canonical
                THEN label.text = canonical[st.s] /\ label.unknownRaw = <<>>
                ELSE label.text = "Unknown" /\ label.unknownRaw = <<st>>

(* C10: isPaused is true exactly when the status is PAUSED in any accepted
   representation (3, "3" or "PAUSED"); so a record whose status label starts
   with "Paused" has isPaused true, the suffix " (Ran for <activeDays> days)"
   and the end-date label "Paused on <lastActiveDate>". *)
C10_PausedConsistent ==
    Returned =>
        \A i \in Records :
            LET r == returned[i]
            IN  /\ r.isPaused <=>
                       RowOf(i).status \in {NumStatus(3), StrStatus("3"), StrStatus("PAUSED")}
                /\ r.status.text = "Paused" =>
                       /\ r.isPaused
                       /\ r.status.ranFor = <<r.activeDuration>>
                       /\ r.endDate.kind = "Paused on"
                       /\ r.endDate.on = <<r.lastActiveDate>>

(* C11: the function returns exactly one record per campaign of the catalog,
   in catalog order, whichever metrics fetches fail and also when two catalog
   rows carry the same campaign id. *)
C11_OneRecordPerCatalogRow ==
    Returned =>
        /\ Len(returned) = Len(campaignInfoResult)
        /\ \A i \in DOMAIN returned : returned[i].campaignId = campaignInfoResult[i].id

(* C12: with a date-range argument the metrics queried for each campaign
   cover that range (CUSTOM: startDate to endDate; LAST_7_DAYS: the seven days
   before today); only without one do they run from the campaign's start date
   through today. *)
C12_RangeHonoured ==
    \A k \in DOMAIN issued :
        IF args.dateRange = <<>>
        THEN /\ issued[k].dateFrom = campaignInfoResult[k].start_date
             /\ ~ticked => issued[k].dateTo = Today(now)
        ELSE IF args.dateRange = <<"CUSTOM">>
        THEN /\ issued[k].dateFrom = args.startDate[1]
             /\ issued[k].dateTo = args.endDate[1]
        ELSE ~ticked =>
                /\ issued[k].dateFrom = Today(now) - 7
                /\ issued[k].dateTo = Today(now) - 1

(* C13: a metric field that is absent or no valid number counts as 0 in its
   total, for that row only: the other fields of the row and the other rows
   are summed as they are, and each of the five totals is a number >= 0. *)
C13_AbsentFieldsCountZero ==
    \A i \in DOMAIN campaignMap :
        ReplyOf(i).ok =>
            LET c == campaignMap[i].value
                rows == ReplyOf(i).rows
                present(field) == {k \in DOMAIN rows : rows[k].metrics[field] # <<>>}
                total(field) == SumOf([k \in DOMAIN rows |->
                                          IF k \in present(field)
                                          THEN rows[k].metrics[field][1] ELSE 0],
                                      Len(rows))
            IN  /\ c.totalCost = total("cost_micros") /\ c.totalCost >= 0
                /\ c.totalConversions = total("conversions") /\ c.totalConversions >= 0
                /\ c.totalConversionsValue = total("conversions_value")
                /\ c.totalConversionsValue >= 0
                /\ c.totalImpressions = total("impressions") /\ c.totalImpressions >= 0
                /\ c.totalClicks = total("clicks") /\ c.totalClicks >= 0

C13_Witness ==
    \E i \in DOMAIN campaignMap :
        /\ ReplyOf(i).ok
        /\ Len(ReplyOf(i).rows) = 2
        /\ ReplyOf(i).rows[1].metrics = PartialMetrics
        /\ ReplyOf(i).rows[2].metrics = BusyMetrics
        /\ campaignMap[i].value.totalImpressions = 200
        /\ campaignMap[i].value.totalClicks = 13

(* C14: within a run the metrics queries are issued one at a time in catalog
   order: the query of a campaign is issued only once the queries of the
   campaigns before it have returned or failed, each campaign is queried
   exactly once, and a failed query is not issued again. *)
C14_OneQueryAtATime ==
    /\ Len(issued) <= Len(campaignInfoResult)
    /\ \A k \in DOMAIN issued : issued[k].campaignId = campaignInfoResult[k].id
    /\ Len(issued) = Len(fetched) + (IF pc = "awaitMetrics" THEN 1 ELSE 0)
    /\ pc = "awaitMetrics" => query = <<issued[Len(issued)]>>
    /\ pc # "awaitMetrics" => query = <<>>
    /\ Returned => Len(issued) = Len(campaignInfoResult)

C14_Witness ==
    /\ Returned
    /\ Len(issued) = 2
    /\ ~fetched[1].ok
    /\ fetched[2].ok

(* the collection after the first n records of the log: a record saved or
   updated is created under its campaignId where no document was, and merged
   into the document that was there *)
RECURSIVE Upserted(_, _)
Upserted(col, n) ==
    IF n = 0 THEN col
    ELSE LET before == Upserted(col, n - 1)
             id == saved[n].id
         IN  IF saved[n].outcome \in {"saved", "updated"}
             THEN [before EXCEPT ![id] =
                      IF before[id] = <<>>
                      THEN <<Campaigns[n]>>
                      ELSE <<[f \in DOMAIN before[id][1] \cup DOMAIN Campaigns[n] |->
                                IF f \in DOMAIN Campaigns[n] THEN Campaigns[n][f]
                                ELSE before[id][1][f]]>>]
             ELSE before

Saving == pc \in {"awaitGet", "awaitSet"}

Done == pc = "done"

(* C15: overAllData saves each record getCampaignData returned under the
   document id equal to its campaignId, creating the document where there is
   none and merging into the one there is; a read or write that fails for one
   record leaves the later records to be saved, a record whose campaignId is
   empty is skipped, nothing is written when getCampaignData fails, and the
   promise of overAllData never rejects. *)
C15_RecordsUpserted ==
    /\ rejection = <<>>
    /\ ~(Saving \/ Done) => saved = <<>> /\ collection = collection0
    /\ error # <<>> => saved = <<>> /\ collection = collection0
    /\ (Saving \/ Done) /\ error = <<>> =>
          /\ Len(saved) <= Len(Campaigns)
          /\ Saving => saveIdx = Len(saved) + 1 /\ ~InvalidId(Campaigns[saveIdx])
          /\ Done => Len(saved) = Len(Campaigns)
          /\ \A i \in DOMAIN saved :
                /\ saved[i].id = Campaigns[i].campaignId
                /\ saved[i].outcome = "skipped" <=> Campaigns[i].campaignId = ""
                /\ saved[i].outcome \in {"skipped", "failed", "saved", "updated"}
          /\ collection = Upserted(collection0, Len(saved))

(* a run whose first record failed to be saved and whose second was merged
   into the document of an earlier run *)
C15_Witness ==
    /\ Done
    /\ Len(saved) = 2
    /\ saved[1].outcome = "failed"
    /\ saved[2].outcome = "updated"
    /\ collection[saved[2].id] =
           <<[f \in DOMAIN Campaigns[2] \cup {"syncedBy"} |->
                IF f = "syncedBy" THEN "earlier" ELSE Campaigns[2][f]]>>

====
